---- MODULE Spec2Model ----
(***************************************************************************)
(* The scraping programs of kxzk/scraping-with-rust as one state machine.  *)
(*                                                                         *)
(* Each program is a linear pipeline: one HTTP GET, a parse of the body,   *)
(* a selector query, and a loop over the matched nodes that prints lines   *)
(* or fills a table.  `variant` says which program runs:                   *)
(*   "rank"    src/src/rank_story_url.rs, examples/rank_story_link.rs      *)
(*   "links"   src/src/grab_all_links.rs                                   *)
(*   "stories" src/src/scraper_stories.rs, examples/scraper_stories.rs     *)
(*   "table"   hack-scraper/src/main.rs                                    *)
(*                                                                         *)
(* An Option<T> is a sequence of length at most one: <<>> is None and      *)
(* <<x>> is Some(x).  A matched node is a record                           *)
(*   [rank : Option<text>, anchor : Option<[texts : Seq(text),             *)
(*                                          href  : Option<text>]>]        *)
(* where texts are the text nodes below the anchor in document order.      *)
(***************************************************************************)
EXTENDS Integers, Sequences, FiniteSets, TLC

\* Largest number of nodes the selector matches in a modelled document.
MaxItems == 2

VARIABLES
    variant,      \* which program runs
    transportOk,  \* reqwest::get returns Ok (no connection failure)
    status,       \* HTTP status of the response
    bodyOk,       \* reading the response body succeeds
    doc,          \* nodes matched by the program's selector, document order
    pc,           \* position in the program
    i,            \* 1-based index of the node the loop is at
    step,         \* position inside the loop body
    table,        \* prettytable::Table rows (table variant)
    out,          \* what has been written to standard output
    err,          \* why the process panicked ("none" while it has not)
    fetches,      \* number of HTTP requests issued
    stages,       \* pipeline stages entered so far, in order
    skipped       \* indices of nodes passed over without output or panic

vars == <<variant, transportOk, status, bodyOk, doc, pc, i, step, table,
          out, err, fetches, stages, skipped>>

inputs == <<variant, transportOk, status, bodyOk, doc>>

----------------------------------------------------------------------------
(* Input universe *)

Variants == {"rank", "links", "stories", "table"}

Statuses == {200, 503}

RankOpts == {<<>>, <<"1.">>}

HrefOpts == {<<>>, <<"">>, <<"http://a">>}

\* A text node of a parsed document is never the empty string.
TextsOpts == {<<>>, <<"login">>, <<"Story A">>, <<"log", "in">>}

Anchors == [texts : TextsOpts, href : HrefOpts]

AnchorOpts == {<<>>} \cup {<<a>> : a \in Anchors}

\* Class("athing") rows: a rank cell and a title anchor, either may be absent.
ItemNodes == [rank : RankOpts, anchor : AnchorOpts]

\* Selectors that match anchors directly: the node is the anchor itself.
AnchorNodes == [rank : {<<>>}, anchor : {<<a>> : a \in Anchors}]

NodesOf(v) == IF v = "rank" THEN ItemNodes ELSE AnchorNodes

SeqsUpTo(S, n) == UNION {[1..k -> S] : k \in 0..n}

----------------------------------------------------------------------------
(* Library primitives the programs call *)

is_none(o) == o = <<>>

unwrap(o) == o[1]

\* http::StatusCode::is_success
is_success(s) == 200 <= s /\ s < 300

RECURSIVE Concat(_)
Concat(ts) == IF ts = <<>> THEN "" ELSE Head(ts) \o Concat(Tail(ts))

\* select::node::Node::text: the concatenation of all descendant text nodes.
text(a) == Concat(a.texts)

\* {:?} of a &str without characters that need escaping.
fmt_debug(s) == "\"" \o s \o "\""

RECURSIVE JoinDebug(_)
JoinDebug(ts) ==
    IF ts = <<>> THEN ""
    ELSE IF Len(ts) = 1 THEN fmt_debug(ts[1])
    ELSE fmt_debug(Head(ts)) \o ", " \o JoinDebug(Tail(ts))

\* {:?} of a Vec<&str>.
fmt_debug_vec(ts) == "[" \o JoinDebug(ts) \o "]"

\* One entry of standard output or one table row.
Line(item, kind, title, url, txt) ==
    [item |-> item, kind |-> kind, title |-> title, url |-> url, text |-> txt]

\* Variation: the rank is left out of the line.
fmt_head_norank(rank, story) == "\n | " \o story \o "\n" \o "\n"

\* println!("\n | {} | {}\n", rank.text(), story)
fmt_head(rank, story) == "\n | " \o rank \o " | " \o story \o "\n" \o "\n"

\* println!("{:?}\n", href)
fmt_url(href) == fmt_debug(href) \o "\n" \o "\n"

\* Variation: the comparison is made against "Login".
is_login_capital(story_txt) == story_txt[1] = "Login"

\* story_txt[0] == "login"
is_login(story_txt) == story_txt[1] = "login"

\* Variation: the row is inserted at the top of the table.
add_row_front(t, r) == <<r>> \o t

\* Table::add_row
add_row(t, r) == Append(t, r)

----------------------------------------------------------------------------
Init ==
    /\ variant \in Variants
    /\ transportOk \in BOOLEAN
    /\ status \in Statuses
    /\ bodyOk \in BOOLEAN
    \* without a response there is no status and no body to vary
    /\ ~transportOk => (status = 200 /\ bodyOk)
    /\ doc \in SeqsUpTo(NodesOf(variant), MaxItems)
    /\ pc = "start"
    /\ i = 0
    /\ step = "none"
    /\ table = <<>>
    /\ out = <<>>
    /\ err = "none"
    /\ fetches = 0
    /\ stages = <<>>
    /\ skipped = {}

Panic(why) ==
    /\ pc' = "aborted"
    /\ err' = why

\* End of one loop iteration: move to the next matched node.
NextNode(first) ==
    /\ i' = i + 1
    /\ step' = first

----------------------------------------------------------------------------
(* Fetch *)

\* Variation: a failed request is issued once more before giving up.
Get_Retry ==
    /\ pc = "start"
    /\ variant # "table"
    /\ fetches' = fetches + 1
    /\ IF transportOk
         THEN pc' = "fetched" /\ err' = err /\ stages' = Append(stages, "fetch")
         ELSE IF fetches = 0
         THEN pc' = pc /\ err' = err /\ stages' = stages
         ELSE Panic("fetch") /\ stages' = Append(stages, "fetch")
    /\ UNCHANGED <<inputs, i, step, table, out, skipped>>

\* reqwest::get(..).unwrap() in the programs that then assert the status.
Get ==
    /\ pc = "start"
    /\ variant # "table"
    /\ fetches' = fetches + 1
    /\ stages' = Append(stages, "fetch")
    /\ IF transportOk
         THEN pc' = "fetched" /\ err' = err
         ELSE Panic("fetch")
    /\ UNCHANGED <<inputs, i, step, table, out, skipped>>

\* assert!(resp.status().is_success())
AssertStatus ==
    /\ pc = "fetched"
    /\ IF is_success(status)
         THEN pc' = "status_ok" /\ err' = err
         ELSE Panic("fetch")
    /\ UNCHANGED <<inputs, i, step, table, out, fetches, stages, skipped>>

\* get_hacker_news_data().unwrap(): get(..)?.text()? with no look at the
\* status; an Err of either call is unwrapped into a panic by main.
get_hacker_news_data ==
    /\ pc = "start"
    /\ variant = "table"
    /\ fetches' = fetches + 1
    /\ stages' = Append(stages, "fetch")
    /\ IF transportOk /\ bodyOk
         THEN pc' = "have_text" /\ err' = err
         ELSE Panic("fetch")
    /\ UNCHANGED <<inputs, i, step, table, out, skipped>>

----------------------------------------------------------------------------
(* Parse *)

\* Document::from_read(resp).unwrap(): fails only when the body cannot be
\* read.
from_read ==
    /\ pc = "status_ok"
    /\ variant \in {"rank", "links"}
    /\ stages' = Append(stages, "parse")
    /\ IF bodyOk
         THEN pc' = "parsed" /\ err' = err
         ELSE Panic("parse")
    /\ UNCHANGED <<inputs, i, step, table, out, fetches, skipped>>

\* resp.text().unwrap() of the stories programs.
ReadText ==
    /\ pc = "status_ok"
    /\ variant = "stories"
    /\ IF bodyOk
         THEN pc' = "have_text" /\ err' = err
         ELSE Panic("fetch")
    /\ UNCHANGED <<inputs, i, step, table, out, fetches, stages, skipped>>

\* Html::parse_document(&body): never fails.
parse_document ==
    /\ pc = "have_text"
    /\ pc' = "parsed"
    /\ stages' = Append(stages, "parse")
    /\ UNCHANGED <<inputs, i, step, table, out, err, fetches, skipped>>

----------------------------------------------------------------------------
(* Select *)

FirstStep(v) ==
    CASE v = "rank"    -> "rank"
      [] v = "links"   -> "href"
      [] v = "stories" -> "text"
      [] v = "table"   -> "href"

\* document.find(..) / Selector::parse(..).unwrap() and select(..), and
\* Table::new() in the table program: the loop starts at the first match.
Select ==
    /\ pc = "parsed"
    /\ pc' = "loop"
    /\ i' = 1
    /\ step' = FirstStep(variant)
    /\ stages' = Append(stages, "extract")
    /\ UNCHANGED <<inputs, table, out, err, fetches, skipped>>

InLoop(v, s) ==
    /\ pc = "loop"
    /\ variant = v
    /\ i <= Len(doc)
    /\ step = s

----------------------------------------------------------------------------
(* Loop of the rank programs (hacker_news) *)

\* let rank = node.find(Class("rank")).next().unwrap();
RankFind ==
    /\ InLoop("rank", "rank")
    /\ IF is_none(doc[i].rank)
         THEN Panic("extract") /\ step' = step
         ELSE pc' = pc /\ err' = err /\ step' = "story"
    /\ UNCHANGED <<inputs, i, table, out, fetches, stages, skipped>>

\* let story = node.find(Class("title").descendant(Name("a")))
\*     .next().unwrap().text();
\* println!("\n | {} | {}\n", rank.text(), story);
StoryPrint ==
    /\ InLoop("rank", "story")
    /\ IF is_none(doc[i].anchor)
         THEN Panic("extract") /\ step' = step /\ out' = out
         ELSE LET rank  == unwrap(doc[i].rank)
                  story == text(unwrap(doc[i].anchor))
              IN  /\ out' = Append(out, Line(i, "head", story, "",
                                             fmt_head(rank, story)))
                  /\ pc' = pc /\ err' = err /\ step' = "url"
    /\ UNCHANGED <<inputs, i, table, fetches, stages, skipped>>

\* Variation: an item without href is passed over instead of panicking.
UrlPrint_Skip ==
    /\ InLoop("rank", "url")
    /\ LET url == unwrap(doc[i].anchor)
       IN  IF is_none(url.href)
             THEN out' = out /\ skipped' = skipped \cup {i}
             ELSE /\ out' = Append(out, Line(i, "url", "", unwrap(url.href),
                                             fmt_url(unwrap(url.href))))
                  /\ skipped' = skipped
    /\ NextNode("rank")
    /\ UNCHANGED <<inputs, pc, err, table, fetches, stages>>

\* let url = node.find(Class("title").descendant(Name("a"))).next().unwrap();
\* println!("{:?}\n", url.attr("href").unwrap());
UrlPrint ==
    /\ InLoop("rank", "url")
    /\ LET url == doc[i].anchor
       IN  IF is_none(url) \/ is_none(unwrap(url).href)
             THEN Panic("extract") /\ step' = step /\ out' = out /\ i' = i
             ELSE LET href == unwrap(unwrap(url).href)
                  IN  /\ out' = Append(out, Line(i, "url", "", href,
                                                 fmt_url(href)))
                      /\ pc' = pc /\ err' = err
                      /\ NextNode("rank")
    /\ UNCHANGED <<inputs, table, fetches, stages, skipped>>

----------------------------------------------------------------------------
(* Loop of grab_all_links *)

\* .filter_map(|n| n.attr("href")).for_each(|x| println!("{}", x))
\* An anchor without href yields None and is dropped by filter_map.
LinkPrint ==
    /\ InLoop("links", "href")
    /\ LET n == unwrap(doc[i].anchor)
       IN  IF is_none(n.href)
             THEN out' = out /\ skipped' = skipped \cup {i}
             ELSE LET x == unwrap(n.href)
                  IN  /\ out' = Append(out, Line(i, "href", "", x, x \o "\n"))
                      /\ skipped' = skipped
    /\ NextNode("href")
    /\ UNCHANGED <<inputs, pc, table, err, fetches, stages>>

----------------------------------------------------------------------------
(* Loop of the stories programs (hn_headlines) *)

\* let story_txt = story.text().collect::<Vec<_>>();
\* println!("{:?}", story_txt);
HeadlinePrint ==
    /\ InLoop("stories", "text")
    /\ LET story_txt == unwrap(doc[i].anchor).texts
       IN  out' = Append(out, Line(i, "texts", Concat(story_txt), "",
                                   fmt_debug_vec(story_txt) \o "\n"))
    /\ NextNode("text")
    /\ UNCHANGED <<inputs, pc, table, err, fetches, stages, skipped>>

----------------------------------------------------------------------------
(* Loop of the table program (hack-scraper main) *)

\* Variation: the login comparison is made before the href is read.
StoryLink_LoginFirst ==
    /\ InLoop("table", "href")
    /\ LET a == unwrap(doc[i].anchor)
       IN  IF a.texts # <<>> /\ a.texts[1] = "login"
             THEN /\ skipped' = skipped \cup {i}
                  /\ NextNode("href")
                  /\ UNCHANGED <<pc, err>>
             ELSE IF is_none(a.href)
             THEN Panic("extract") /\ UNCHANGED <<i, step, skipped>>
             ELSE step' = "text" /\ UNCHANGED <<pc, err, i, skipped>>
    /\ UNCHANGED <<inputs, table, out, fetches, stages>>

\* let story_link = story.value().attr("href").unwrap();
StoryLink ==
    /\ InLoop("table", "href")
    /\ IF is_none(unwrap(doc[i].anchor).href)
         THEN Panic("extract") /\ step' = step
         ELSE pc' = pc /\ err' = err /\ step' = "text"
    /\ UNCHANGED <<inputs, i, table, out, fetches, stages, skipped>>

\* let story_txt = story.text().collect::<Vec<_>>();
StoryTxt ==
    /\ InLoop("table", "text")
    /\ step' = "cmp"
    /\ UNCHANGED <<inputs, pc, i, table, out, err, fetches, stages, skipped>>

\* if story_txt[0] == "login" { continue; }
\* Indexing an empty Vec panics.
LoginCheck ==
    /\ InLoop("table", "cmp")
    /\ LET story_txt == unwrap(doc[i].anchor).texts
       IN  IF story_txt = <<>>
             THEN /\ Panic("extract")
                  /\ UNCHANGED <<i, step, skipped>>
             ELSE IF is_login(story_txt)
             THEN /\ skipped' = skipped \cup {i}
                  /\ NextNode("href")
                  /\ UNCHANGED <<pc, err>>
             ELSE /\ step' = "add"
                  /\ UNCHANGED <<pc, err, i, skipped>>
    /\ UNCHANGED <<inputs, table, out, fetches, stages>>

\* Variation: the table is printed inside the loop, after each record.
AddRows_PrintEach ==
    /\ InLoop("table", "add")
    /\ LET story_link == unwrap(unwrap(doc[i].anchor).href)
           story_txt  == unwrap(doc[i].anchor).texts
       IN  /\ table' = Append(Append(table,
                           Line(i, "title", story_txt[1], "", story_txt[1])),
                           Line(i, "link", "", story_link, story_link))
           /\ out' = out \o table'
    /\ NextNode("href")
    /\ UNCHANGED <<inputs, pc, err, fetches, stages, skipped>>

\* table.add_row(row![FdBybl->story_txt[0]]);
\* table.add_row(row![Fy->story_link]);
AddRows ==
    /\ InLoop("table", "add")
    /\ LET story_link == unwrap(unwrap(doc[i].anchor).href)
           story_txt  == unwrap(doc[i].anchor).texts
       IN  table' = add_row(add_row(table,
                        Line(i, "title", story_txt[1], "", story_txt[1])),
                        Line(i, "link", "", story_link, story_link))
    /\ NextNode("href")
    /\ UNCHANGED <<inputs, pc, out, err, fetches, stages, skipped>>

\* table.printstd(): the rows of the table, top to bottom, in one write.
printstd ==
    /\ pc = "loop"
    /\ variant = "table"
    /\ i > Len(doc)
    /\ out' = out \o table
    /\ stages' = Append(stages, "render")
    /\ pc' = "done"
    /\ UNCHANGED <<inputs, i, step, table, err, fetches, skipped>>

----------------------------------------------------------------------------
\* The for loop of a printing program is exhausted: the function returns.
Return ==
    /\ pc = "loop"
    /\ variant # "table"
    /\ i > Len(doc)
    /\ pc' = "done"
    /\ UNCHANGED <<inputs, i, step, table, out, err, fetches, stages, skipped>>

Terminated == pc \in {"done", "aborted"}

Next ==
    \/ Get
    \/ AssertStatus
    \/ get_hacker_news_data
    \/ from_read
    \/ ReadText
    \/ parse_document
    \/ Select
    \/ RankFind
    \/ StoryPrint
    \/ UrlPrint
    \/ LinkPrint
    \/ HeadlinePrint
    \/ StoryLink
    \/ StoryTxt
    \/ LoginCheck
    \/ AddRows
    \/ printstd
    \/ Return

Spec == Init /\ [][Next]_vars

\* The process is the only thread and always takes its next step.
FairSpec == Spec /\ WF_vars(Next)

TypeOK ==
    /\ pc \in {"start", "fetched", "status_ok", "have_text", "parsed",
               "loop", "done", "aborted"}
    /\ i \in 0..(Len(doc) + 1)
    /\ err \in {"none", "fetch", "parse", "extract"}
    /\ skipped \subseteq 1..Len(doc)

----------------------------------------------------------------------------
(* Output order *)

\* C1: in every program the entries written to standard output follow the
\* document order of the nodes they come from, and no node contributes the
\* same kind of entry twice: of two entries, the earlier one belongs to an
\* earlier node, or to the same node and is a different part of its record.
C1_OutputInDocumentOrder ==
    \A p, q \in DOMAIN out :
        p < q =>
            \/ out[p].item < out[q].item
            \/ out[p].item = out[q].item /\ out[p].kind # out[q].kind

\* The table program has finished and printed the records of two nodes.
C1_Witness ==
    /\ variant = "table"
    /\ pc = "done"
    /\ \E p, q \in DOMAIN out : out[p].item # out[q].item

----------------------------------------------------------------------------
(* Table contents *)

\* The rows the table program is expected to hold after the first k matched
\* anchors, each of which has an href and a first text fragment.
RECURSIVE ExpectedRows(_, _)
ExpectedRows(d, k) ==
    IF k = 0 THEN <<>>
    ELSE LET a    == d[k].anchor[1]
             prev == ExpectedRows(d, k - 1)
         IN  IF a.texts[1] = "login" THEN prev
             ELSE prev \o <<Line(k, "title", a.texts[1], "", a.texts[1]),
                            Line(k, "link", "", a.href[1], a.href[1])>>

\* C7: in the table program, after any prefix of the matched anchors the
\* table holds exactly a title row followed by a link row for every
\* non-login anchor of the prefix, in order and with nothing else (no
\* header); standard output is empty until the loop is over and then holds
\* the table exactly once, so a run that panics prints nothing.
C7_TableRowsAndSinglePrint ==
    variant = "table" =>
        /\ table = IF i = 0 THEN <<>> ELSE ExpectedRows(doc, i - 1)
        /\ out = IF pc = "done" THEN table ELSE <<>>
        /\ pc = "done" => i = Len(doc) + 1

\* The table program printed a table of two records.
C7_Witness ==
    /\ variant = "table"
    /\ pc = "done"
    /\ Len(out) = 4
    /\ out[1].kind = "title" /\ out[2].kind = "link"

----------------------------------------------------------------------------
(* Step order of the table loop *)

TableStepOrder ==
    {<<"href", "text">>, <<"text", "cmp">>, <<"cmp", "add">>,
     <<"cmp", "href">>, <<"add", "href">>}

C10_State ==
    variant = "table" =>
        \* only an anchor with href whose first fragment is "login" is skipped
        /\ \A j \in skipped :
               LET a == unwrap(doc[j].anchor)
               IN  /\ ~is_none(a.href)
                   /\ a.texts # <<>>
                   /\ a.texts[1] = "login"
        \* the loop never gets past an anchor without href, login or not
        /\ \A j \in 1..Len(doc) :
               is_none(unwrap(doc[j].anchor).href) => i <= j /\ pc # "done"
        \* a panic in the loop is at the href read, or at the first fragment
        \* of an anchor that has an href
        /\ (pc = "aborted" /\ err = "extract") =>
               LET a == unwrap(doc[i].anchor)
               IN  \/ step = "href" /\ is_none(a.href)
                   \/ step = "cmp" /\ ~is_none(a.href) /\ a.texts = <<>>

C10_Step ==
    (variant = "table" /\ pc = "loop" /\ step' # step) =>
        <<step, step'>> \in TableStepOrder

\* C10: the table program handles each matched anchor in the order href
\* read, text collection, first-fragment comparison with "login", row
\* insertion; it panics at the href read when href is absent and at the
\* comparison when there is no text fragment; it skips an anchor only if the
\* anchor has an href and its first fragment is "login", so a login anchor
\* without href panics instead of being skipped.
C10_TableStepOrder == []C10_State /\ [][C10_Step]_vars

\* A login anchor with href was skipped and a later anchor was reached.
C10_Witness ==
    /\ variant = "table"
    /\ skipped # {}
    /\ pc = "done"
    /\ Len(table) = 2

----------------------------------------------------------------------------
(* Termination *)

IsPrefix(s, t) == Len(s) <= Len(t) /\ s = SubSeq(t, 1, Len(s))

\* Every node was either written to standard output or passed over.
AllNodesHandled ==
    \A j \in 1..Len(doc) :
        j \in skipped \/ \E p \in DOMAIN out : out[p].item = j

C9_Shape ==
    /\ fetches <= 1
    /\ IsPrefix(stages, <<"fetch", "parse", "extract", "render">>)
    /\ Terminated => fetches = 1
    /\ pc = "done" => /\ err = "none"
                      /\ i = Len(doc) + 1
                      /\ AllNodesHandled
    /\ pc = "aborted" => err \in {"fetch", "parse", "extract"}
    /\ pc \notin {"done", "aborted"} => err = "none"

\* C9: every run terminates, and it terminates either in "done" after the
\* loop went through every matched node and every node that was not skipped
\* is in the output, or in a panic of the fetch, parse or extract kind; the
\* stages are entered in the order fetch, parse, extract, render, and there
\* is exactly one HTTP request.
C9_Termination == <>Terminated /\ []C9_Shape

\* A run over a document of two nodes ended normally.
C9_Witness ==
    /\ pc = "done"
    /\ Len(doc) >= 2
    /\ fetches = 1

----------------------------------------------------------------------------
(* Login filter *)

\* C2 as stated: no program that renders titles ever writes a record whose
\* title is exactly "login".
C2_NoLoginAnywhere ==
    \A p \in DOMAIN out :
        out[p].kind \in {"head", "title"} => out[p].title # "login"

\* C2: in the table program no title row whose text is exactly "login" is
\* ever in the table or on standard output, wherever the anchor stands.
C2_TableLoginFilter ==
    variant = "table" =>
        /\ \A p \in DOMAIN table :
               table[p].kind = "title" => table[p].text # "login"
        /\ \A p \in DOMAIN out :
               out[p].kind = "title" => out[p].text # "login"

\* The first anchor was a login anchor and a later record was printed.
C2_Witness ==
    /\ variant = "table"
    /\ pc = "done"
    /\ 1 \in skipped
    /\ out # <<>>

----------------------------------------------------------------------------
(* Status gate *)

\* C3: once a response with a non-2xx status has come back, no stage after
\* the fetch is entered, nothing is written or tabled, and the run does not
\* end normally but in a fetch error.
C3_StatusGate ==
    (fetches = 1 /\ transportOk /\ ~is_success(status)) =>
        /\ \A k \in DOMAIN stages : stages[k] = "fetch"
        /\ out = <<>>
        /\ table = <<>>
        /\ pc # "done"
        /\ pc = "aborted" => err = "fetch"

----------------------------------------------------------------------------
(* Required fields *)

RecordPrograms == {"rank", "table"}

\* The title row or head line and the url row or line of node j in seq s.
HasPart(s, j, kind) == \E p \in DOMAIN s : s[p].item = j /\ s[p].kind = kind

\* Node n has a title anchor with non-empty text and a non-empty href.
HasTitleAndUrl(n) ==
    /\ ~is_none(n.anchor)
    /\ Concat(unwrap(n.anchor).texts) # ""
    /\ ~is_none(unwrap(n.anchor).href)
    /\ unwrap(unwrap(n.anchor).href) # ""

\* C4: in the rank programs and the table program, every title and every
\* url written to standard output or put into the table is a non-empty
\* string, and every entry written or tabled, head line included, comes
\* from a node whose anchor has an href attribute, a non-empty href value
\* and non-empty title text.
C4_RequiredFields ==
    variant \in RecordPrograms =>
        \A s \in {out, table} :
            \A p \in DOMAIN s :
                /\ s[p].kind \in {"head", "title"} => s[p].title # ""
                /\ s[p].kind \in {"url", "link"} => s[p].url # ""
                /\ HasTitleAndUrl(doc[s[p].item])

----------------------------------------------------------------------------
(* Missing href *)

LacksHref(n) == ~is_none(n.anchor) /\ is_none(unwrap(n.anchor).href)

\* C5: when a matched node's anchor has no href, the run does not end
\* normally and nothing at all is written to standard output.
C5_NoOutputOnMissingHref ==
    (variant \in RecordPrograms /\ \E j \in DOMAIN doc : LacksHref(doc[j])) =>
        /\ out = <<>>
        /\ pc # "done"

----------------------------------------------------------------------------
(* Missing required fields *)

\* The fields the loop of program v reads from a matched node.
MissingRequired(v, n) ==
    CASE v = "rank"    -> is_none(n.rank) \/ is_none(n.anchor) \/ LacksHref(n)
      [] v = "table"   -> LacksHref(n)
      [] v = "links"   -> LacksHref(n)
      [] v = "stories" -> FALSE

\* The loop never gets past node j and the run does not end normally.
HardFailureAt(j) == i <= j /\ pc # "done" /\ j \notin skipped

\* C6 as stated: in every program a node with a missing required field
\* stops the run; none passes over it.
C6_HardFailureEverywhere ==
    \A j \in DOMAIN doc :
        MissingRequired(variant, doc[j]) => HardFailureAt(j)

\* C6: in the rank programs and the table program a node with a missing
\* required field stops the run at that node; grab_all_links never panics in
\* its loop and passes over exactly the anchors without href.
C6_HardFailureInRecordPrograms ==
    /\ variant \in RecordPrograms =>
           \A j \in DOMAIN doc :
               MissingRequired(variant, doc[j]) => HardFailureAt(j)
    /\ variant = "links" =>
           /\ err # "extract"
           /\ i >= 1 => skipped = {j \in 1..(i - 1) : LacksHref(doc[j])}

\* The rank program panicked at its second node, which has no title anchor.
C6_Witness ==
    /\ variant = "rank"
    /\ pc = "aborted"
    /\ err = "extract"
    /\ i = 2
    /\ is_none(doc[2].anchor)

----------------------------------------------------------------------------
(* Blocks of the rank programs *)

HasFetchedAndParsed == err \notin {"fetch", "parse"}

\* C8 as stated: a node with a title anchor and an href is printed as a
\* block whether or not it has a rank node, so a document whose nodes all
\* have anchor and href is printed completely.
C8_RankOptional ==
    (/\ variant = "rank"
     /\ Terminated
     /\ HasFetchedAndParsed
     /\ \A j \in DOMAIN doc :
            ~is_none(doc[j].anchor) /\ ~LacksHref(doc[j])) =>
        /\ pc = "done"
        /\ \A j \in DOMAIN doc : HasPart(out, j, "head") /\ HasPart(out, j, "url")

\* C8: the rank programs write, for the nodes in order, a line
\* " | <rank> | <title>" (after a blank line, followed by a blank line) and
\* then the href in quotes on its own line; every node the loop is past has
\* its whole block printed; a node without rank node stops the run with
\* nothing printed for it.
C8_RankBlocks ==
    variant = "rank" =>
        /\ \A p \in DOMAIN out :
               LET j == (p + 1) \div 2
                   n == doc[j]
               IN  /\ out[p].item = j
                   /\ ~is_none(n.rank)
                   /\ ~is_none(n.anchor)
                   /\ IF p % 2 = 1
                        THEN /\ out[p].kind = "head"
                             /\ out[p].text =
                                    "\n | " \o n.rank[1] \o " | "
                                    \o Concat(n.anchor[1].texts) \o "\n\n"
                        ELSE /\ out[p].kind = "url"
                             /\ out[p].text =
                                    "\"" \o n.anchor[1].href[1] \o "\"\n\n"
        /\ i >= 1 => Len(out) = 2 * (i - 1) + (IF step = "url" THEN 1 ELSE 0)
        /\ \A j \in DOMAIN doc :
               is_none(doc[j].rank) =>
                   /\ HardFailureAt(j)
                   /\ ~HasPart(out, j, "head")

\* The first node was printed as a block and the second, which has no rank
\* node, stopped the run.
C8_Witness ==
    /\ variant = "rank"
    /\ pc = "aborted"
    /\ i = 2
    /\ is_none(doc[2].rank)
    /\ Len(out) = 2

====
